---------------------------- MODULE Spec2Model ----------------------------
(***************************************************************************)
(* Model of app/main.py: the FastAPI facade over the ggwave command-line   *)
(* encoder and decoder.  Text is modelled as a sequence of one-character   *)
(* strings, a path as a record of its directory parts and its file name,   *)
(* and the temp directory as a map from file names to files.               *)
(***************************************************************************)
EXTENDS Integers, Sequences, FiniteSets, TLC

VARIABLES
    os_name,        \* os.name: "posix" or "nt"
    environ,        \* os.environ, the two override variables
    cwd,            \* the working directory of the process
    files,          \* the regular files of the file system (executables)
    path_hits,      \* what shutil.which answers for each candidate name
    app,            \* "importing", "serving" or "failed" (import raised)
    encoder_path,   \* module global encoder_path
    decoder_path,   \* module global decoder_path
    import_error,   \* the exception that ended the import, if any
    tmpfiles,       \* the temp directory: file name -> file
    req             \* the requests: id -> request record

vars == <<os_name, environ, cwd, files, path_hits, app, encoder_path,
          decoder_path, import_error, tmpfiles, req>>

-----------------------------------------------------------------------------
(* Bounds of the model. *)

MaxRequests == 2

MaxTextLen == 2

MaxLines == 2

-----------------------------------------------------------------------------
(* Text helpers. *)

Whitespace == {" ", "\n", "\t"}

UpperToLower ==
    [c \in {"G", "W", "T", "F", "E", "X", "C", "L", "I"} |->
        CASE c = "G" -> "g" [] c = "W" -> "w" [] c = "T" -> "t"
          [] c = "F" -> "f" [] c = "E" -> "e" [] c = "X" -> "x"
          [] c = "C" -> "c" [] c = "L" -> "l" [] c = "I" -> "i"]

\* str.lower()
Lower(s) ==
    [i \in 1..Len(s) |-> IF s[i] \in DOMAIN UpperToLower THEN UpperToLower[s[i]] ELSE s[i]]

\* sub in s
Contains(sub, s) ==
    \E i \in 1..(Len(s) - Len(sub) + 1) : SubSeq(s, i, i + Len(sub) - 1) = sub

\* s.endswith(suffix)
EndsWith(s, suffix) ==
    /\ Len(s) >= Len(suffix)
    /\ SubSeq(s, Len(s) - Len(suffix) + 1, Len(s)) = suffix

RECURSIVE LStrip(_)
LStrip(s) == IF s # <<>> /\ Head(s) \in Whitespace THEN LStrip(Tail(s)) ELSE s

RECURSIVE RStrip(_)
RStrip(s) ==
    IF s # <<>> /\ s[Len(s)] \in Whitespace THEN RStrip(SubSeq(s, 1, Len(s) - 1)) ELSE s

\* str.strip()
Strip(s) == RStrip(LStrip(s))

\* EncodeRequest.stripped_text
stripped_text(text) == Strip(text)

\* All sequences over alphabet of length at most n.
RECURSIVE SeqsUpTo(_, _)
SeqsUpTo(alphabet, n) ==
    IF n = 0 THEN {<<>>}
    ELSE LET shorter == SeqsUpTo(alphabet, n - 1)
         IN  shorter \cup {Append(s, c) : s \in shorter, c \in alphabet}

-----------------------------------------------------------------------------
(* Program constants. *)

GGWAVE_ENCODE_ENV == "GGWAVE_ENCODE"

GGWAVE_DECODE_ENV == "GGWAVE_DECODE"

PROJECT_ROOT == <<"/", "proj">>

GGWAVE_TO_FILE == <<"g","g","w","a","v","e","-","t","o","-","f","i","l","e">>

GGWAVE_CLI == <<"g","g","w","a","v","e","-","c","l","i">>

GGWAVE_FROM_FILE == <<"g","g","w","a","v","e","-","f","r","o","m","-","f","i","l","e">>

DOT_EXE == <<".","e","x","e">>

ENCODER_NAMES == <<GGWAVE_TO_FILE, GGWAVE_CLI>>

DECODER_NAMES == <<GGWAVE_FROM_FILE>>

-----------------------------------------------------------------------------
(* Paths. *)

NoPath == [dir |-> <<>>, name |-> <<>>]

\* directory / candidate
Join(directory, name) == [dir |-> directory, name |-> name]

IsAbsolute(p) == p.dir # <<>> /\ p.dir[1] = "/"

\* The operating system resolves a relative path against the working directory.
Resolve(p) == IF IsAbsolute(p) THEN p ELSE [dir |-> cwd \o p.dir, name |-> p.name]

\* Path.is_file()
is_file(p) == Resolve(p) \in files

\* An environment value: unset, or a string read as a path ("" has no parts).
Unset == [set |-> FALSE, dir |-> <<>>, name |-> <<>>]

EnvValue(directory, name) == [set |-> TRUE, dir |-> directory, name |-> name]

EmptyValue == EnvValue(<<>>, <<>>)

\* Python truthiness of os.environ.get(env_var): None and "" are false.
Truthy(v) == v.set /\ (v.dir # <<>> \/ v.name # <<>>)

\* Path(override)
PathOf(v) == [dir |-> v.dir, name |-> v.name]

-----------------------------------------------------------------------------
(* Binary Locator. *)

HINTS ==
    << PROJECT_ROOT,
       PROJECT_ROOT \o <<"external", "ggwave">>,
       PROJECT_ROOT \o <<"build">>,
       PROJECT_ROOT \o <<"build", "_deps", "ggwave-build">> >>

SUBDIRS ==
    << <<>>, <<"bin">>, <<"build">>, <<"build", "bin">>, <<"build", "examples">>,
       <<"examples">> >>

\* The nested loops flattened: position k is (base, sub) in iteration order.
AllCandidateDirs ==
    [k \in 1..(Len(HINTS) * Len(SUBDIRS)) |->
        HINTS[((k - 1) \div Len(SUBDIRS)) + 1] \o SUBDIRS[((k - 1) % Len(SUBDIRS)) + 1]]

InSeq(x, s) == \E i \in 1..Len(s) : s[i] = x

\* The seen-set: a directory is yielded the first time only.
RECURSIVE Dedup(_, _)
Dedup(s, acc) ==
    IF s = <<>> THEN acc
    ELSE IF InSeq(Head(s), acc) THEN Dedup(Tail(s), acc)
    ELSE Dedup(Tail(s), Append(acc, Head(s)))

iter_default_cli_dirs == Dedup(AllCandidateDirs, <<>>)

\* sorted({name, name + ".exe"}): name is a proper prefix, so it sorts first.
possible_binary_names(name) ==
    IF os_name = "nt" /\ ~EndsWith(Lower(name), DOT_EXE)
    THEN <<name, name \o DOT_EXE>>
    ELSE <<name>>

RECURSIVE CandidateNames(_)
CandidateNames(names) ==
    IF names = <<>> THEN <<>>
    ELSE possible_binary_names(Head(names)) \o CandidateNames(Tail(names))

NotFound == [found |-> FALSE, path |-> NoPath]

Found(p) == [found |-> TRUE, path |-> p]

\* for candidate in candidate_names: if (directory / candidate).is_file(): return
RECURSIVE FirstInDir(_, _)
FirstInDir(directory, names) ==
    IF names = <<>> THEN NotFound
    ELSE IF is_file(Join(directory, Head(names))) THEN Found(Join(directory, Head(names)))
    ELSE FirstInDir(directory, Tail(names))

\* for directory in _iter_default_cli_dirs(): ...
RECURSIVE FirstInDirs(_, _)
FirstInDirs(dirs, names) ==
    IF dirs = <<>> THEN NotFound
    ELSE LET hit == FirstInDir(Head(dirs), names)
         IN  IF hit.found THEN hit ELSE FirstInDirs(Tail(dirs), names)

\* shutil.which(candidate)
which(candidate) ==
    IF candidate \in DOMAIN path_hits THEN path_hits[candidate] ELSE NotFound

\* for candidate in candidate_names: resolved = shutil.which(candidate) ...
RECURSIVE FirstOnPath(_)
FirstOnPath(names) ==
    IF names = <<>> THEN NotFound
    ELSE IF which(Head(names)).found THEN which(Head(names))
    ELSE FirstOnPath(Tail(names))

NoError ==
    [kind |-> "none", status_code |-> 0, env_var |-> "", override |-> NoPath, names |-> <<>>]

Resolved(p) == [ok |-> TRUE, path |-> p, detail |-> NoError]

NotResolved == [ok |-> FALSE, path |-> NoPath, detail |-> NoError]

\* HTTPException(500, "The environment variable ... points to ..., but the
\* executable could not be found.")
OverrideError(env_var, override) ==
    [ok |-> FALSE, path |-> NoPath,
     detail |-> [kind |-> "override", status_code |-> 500, env_var |-> env_var,
                 override |-> PathOf(override), names |-> <<>>]]

\* HTTPException(500, "Unable to locate a ggwave executable. Looked for: ...")
LocateError(env_var, candidate_names) ==
    [ok |-> FALSE, path |-> NoPath,
     detail |-> [kind |-> "not_located", status_code |-> 500, env_var |-> env_var,
                 override |-> NoPath, names |-> candidate_names]]

\* The same lookup with an override that is no file passed over in silence.
ensure_cli_found_silent_fallback(env_var, names) ==
    LET override == environ[env_var]
        candidate_names == CandidateNames(names)
        in_dirs == FirstInDirs(iter_default_cli_dirs, candidate_names)
        on_path == FirstOnPath(candidate_names)
    IN  IF Truthy(override) /\ is_file(PathOf(override))
        THEN Resolved(PathOf(override))
        ELSE IF in_dirs.found THEN Resolved(in_dirs.path)
        ELSE IF on_path.found THEN Resolved(on_path.path)
        ELSE LocateError(env_var, candidate_names)

\* The same lookup with the search path consulted before the directories.
ensure_cli_found_path_first(env_var, names) ==
    LET override == environ[env_var]
        candidate_names == CandidateNames(names)
    IN  IF Truthy(override)
        THEN IF is_file(PathOf(override))
             THEN Resolved(PathOf(override))
             ELSE OverrideError(env_var, override)
        ELSE LET in_dirs == FirstInDirs(iter_default_cli_dirs, candidate_names)
                 on_path == FirstOnPath(candidate_names)
             IN  IF on_path.found THEN Resolved(on_path.path)
                 ELSE IF in_dirs.found THEN Resolved(in_dirs.path)
                 ELSE LocateError(env_var, candidate_names)

ensure_cli_found(env_var, names) ==
    LET override == environ[env_var]
        candidate_names == CandidateNames(names)
    IN  IF Truthy(override)
        THEN IF is_file(PathOf(override))
             THEN Resolved(PathOf(override))
             ELSE OverrideError(env_var, override)
        ELSE LET in_dirs == FirstInDirs(iter_default_cli_dirs, candidate_names)
                 on_path == FirstOnPath(candidate_names)
             IN  IF in_dirs.found THEN Resolved(in_dirs.path)
                 ELSE IF on_path.found THEN Resolved(on_path.path)
                 ELSE LocateError(env_var, candidate_names)

-----------------------------------------------------------------------------
(* Import of the module: lines 134-137 run once, before any request. *)

Import ==
    /\ app = "importing"
    /\ LET enc == ensure_cli_found(GGWAVE_ENCODE_ENV, ENCODER_NAMES)
           dec == ensure_cli_found(GGWAVE_DECODE_ENV, DECODER_NAMES)
       IN  IF ~enc.ok
           THEN /\ app' = "failed"
                /\ import_error' = enc.detail
                /\ UNCHANGED <<encoder_path, decoder_path>>
           ELSE IF ~dec.ok
           THEN /\ app' = "failed"
                /\ import_error' = dec.detail
                /\ encoder_path' = enc
                /\ UNCHANGED decoder_path
           ELSE /\ app' = "serving"
                /\ encoder_path' = enc
                /\ decoder_path' = dec
                /\ UNCHANGED import_error
    /\ UNCHANGED <<os_name, environ, cwd, files, path_hits, tmpfiles, req>>

-----------------------------------------------------------------------------
(* Bytes, the codec and the decoder's output. *)

\* A byte that is not valid UTF-8.
INVALID_BYTE == "<ff>"

\* str.encode("utf-8"): the model's characters are ASCII, one byte each.
Utf8Encode(text) == text

\* bytes.decode("utf-8", errors="ignore"): invalid bytes are dropped.
Utf8DecodeIgnore(bytes) == SelectSeq(bytes, LAMBDA b : b # INVALID_BYTE)

\* The waveform a lossless encoder writes for a message.
Wav(message) == <<"RIFF">> \o message

IsWav(bytes) == bytes # <<>> /\ bytes[1] = "RIFF"

WavMessage(bytes) == Tail(bytes)

Digit == {"0", "1", "2", "3", "4", "5", "6", "7", "8", "9"}

DigitOf == [d \in 0..9 |-> <<"0", "1", "2", "3", "4", "5", "6", "7", "8", "9">>[d + 1]]

RECURSIVE ToDigits(_)
ToDigits(n) == IF n < 10 THEN <<DigitOf[n]>> ELSE Append(ToDigits(n \div 10), DigitOf[n % 10])

PATTERN_PREFIX ==
    <<"[","+","]"," ","D","e","c","o","d","e","d"," ","m","e","s","s","a","g","e"," ",
      "w","i","t","h"," ","l","e","n","g","t","h"," ">>

PATTERN_COLON == <<":"," ","'">>

\* What the lossless decoder prints for a message: a log line, then the line
\* "[+] Decoded message with length N: '<message>'".
LOG_LINE == <<"[","+","]"," ","o","k","\n">>

DecodedLine(message) ==
    PATTERN_PREFIX \o ToDigits(Len(message)) \o PATTERN_COLON \o message \o <<"'", "\n">>

LosslessStdout(message) == LOG_LINE \o DecodedLine(message)

-----------------------------------------------------------------------------
(* DECODE_PATTERN = \[\+] Decoded message with length \d+: '(.+?)' *)

HasAt(s, i, lit) == i + Len(lit) - 1 <= Len(s) /\ SubSeq(s, i, i + Len(lit) - 1) = lit

\* \d+ is greedy: the position after the longest run of digits from j.
RECURSIVE DigitsEnd(_, _)
DigitsEnd(s, j) == IF j <= Len(s) /\ s[j] \in Digit THEN DigitsEnd(s, j + 1) ELSE j

\* (.+?)' from position g: the ends e of a non-empty run without a line break
\* that a single quote follows.  The lazy quantifier takes the smallest.
GroupEnds(s, g) ==
    {e \in g..(Len(s) - 1) : s[e + 1] = "'" /\ \A k \in g..e : s[k] # "\n"}

Min(S) == CHOOSE x \in S : \A y \in S : x <= y

NoMatch == [matched |-> FALSE, group |-> <<>>]

MatchAt(s, i) ==
    IF ~HasAt(s, i, PATTERN_PREFIX) THEN NoMatch
    ELSE LET j == i + Len(PATTERN_PREFIX)
             k == DigitsEnd(s, j)
             g == k + Len(PATTERN_COLON)
         IN  IF k = j \/ ~HasAt(s, k, PATTERN_COLON) \/ GroupEnds(s, g) = {}
             THEN NoMatch
             ELSE [matched |-> TRUE, group |-> SubSeq(s, g, Min(GroupEnds(s, g)))]

\* DECODE_PATTERN.search(s): the leftmost position that matches.
DECODE_PATTERN_search(s) ==
    LET starts == {i \in 1..Len(s) : MatchAt(s, i).matched}
    IN  IF starts = {} THEN NoMatch ELSE MatchAt(s, Min(starts))

-----------------------------------------------------------------------------
(* HTTP responses. *)

NoDetail == [msg |-> "", stderr |-> <<>>, returncode |-> 0]

NoResponse ==
    [status |-> 0, media_type |-> "", disposition |-> "", body |-> <<>>, detail |-> NoDetail]

\* HTTPException(status_code, detail)
HTTPException(status, msg) ==
    [status |-> status, media_type |-> "application/json", disposition |-> "", body |-> <<>>,
     detail |-> [msg |-> msg, stderr |-> <<>>, returncode |-> 0]]

\* An exception no handler catches: the server answers 500.
InternalServerError ==
    [status |-> 500, media_type |-> "text/plain", disposition |-> "", body |-> <<>>,
     detail |-> [msg |-> "Internal Server Error", stderr |-> <<>>, returncode |-> 0]]

\* StreamingResponse(audio_file, media_type="audio/wav") with its header; the
\* body is read from the file after the handler has returned.
StreamingResponse ==
    [status |-> 200, media_type |-> "audio/wav",
     disposition |-> "attachment; filename=\"payload.wav\"", body |-> <<>>, detail |-> NoDetail]

PlainTextResponse(content) ==
    [status |-> 200, media_type |-> "text/plain", disposition |-> "", body |-> content,
     detail |-> NoDetail]

-----------------------------------------------------------------------------
(* Process Invoker. *)

NoProc == [error |-> "none", returncode |-> 0, stdout |-> <<>>, stderr |-> <<>>]

\* The same without check=True: a non-zero exit code raises nothing.
run_cli_unchecked(outcome) ==
    IF outcome.error = "FileNotFoundError"
    THEN HTTPException(500, "Executable not found")
    ELSE IF outcome.error # "none"
    THEN InternalServerError
    ELSE NoResponse

\* What _run_cli raises for the outcome of subprocess.run, if anything.
run_cli_raises(outcome) ==
    IF outcome.error = "FileNotFoundError"
    THEN HTTPException(500, "Executable not found")
    ELSE IF outcome.error # "none"
    THEN InternalServerError
    ELSE IF outcome.returncode # 0
    THEN LET stderr == Strip(Utf8DecodeIgnore(outcome.stderr))
         IN  IF stderr # <<>>
             THEN [HTTPException(500, "stderr") EXCEPT !.detail.stderr = stderr]
             ELSE [HTTPException(500, "Command failed with exit code")
                      EXCEPT !.detail.returncode = outcome.returncode]
    ELSE NoResponse

-----------------------------------------------------------------------------
(* The temp directory. *)

TmpNames == 0..MaxRequests

NoTmp == [created |-> FALSE, name |-> 0]

TmpPath(n) == [created |-> TRUE, name |-> n]

\* The listing before any request: one file of another program.
PreExisting == (0 :> [ino |-> 0, data |-> <<"x">>])

\* tempfile.NamedTemporaryFile picks a name that does not exist.
FreshNames == TmpNames \ DOMAIN tmpfiles

\* A cleanup that leaves the file in place.
remove_file_skipped(dir, name) == dir

\* Path.unlink(), FileNotFoundError ignored.
remove_file(dir, name) == [n \in DOMAIN dir \ {name} |-> dir[n]]

\* A new file of that name, owned by its creator.
CreateFile(dir, name, ino, data) ==
    [n \in DOMAIN dir \cup {name} |-> IF n = name THEN [ino |-> ino, data |-> data] ELSE dir[n]]

\* A process writes data to the file of that name, creating it if need be.
WriteFile(dir, name, ino, data) ==
    IF name \in DOMAIN dir
    THEN [dir EXCEPT ![name].data = data]
    ELSE CreateFile(dir, name, ino, data)

-----------------------------------------------------------------------------
(* Requests. *)

Requests == 1..MaxRequests

NoInput == [present |-> FALSE, data |-> <<>>]

NoFile == [open |-> FALSE, data |-> <<>>]

NewRequest ==
    [kind |-> "none", pc |-> "idle", text |-> <<>>, contents |-> <<>>, tmp_path |-> NoTmp,
     command |-> <<>>, input_data |-> NoInput, spawns |-> 0, proc |-> NoProc,
     raised |-> NoResponse, audio_file |-> NoFile, response |-> NoResponse,
     responses |-> 0]

\* The arguments of a command line.
ExeArg(p) == [kind |-> "exe", path |-> p, text |-> <<>>, tmp |-> 0]

TextArg(t) == [kind |-> "text", path |-> NoPath, text |-> t, tmp |-> 0]

OutputFlag ==
    [kind |-> "flag", path |-> NoPath, text |-> <<"-","-","o","u","t","p","u","t">>, tmp |-> 0]

TmpArg(n) == [kind |-> "tmp", path |-> NoPath, text |-> <<>>, tmp |-> n]

Built(command, input_data) ==
    [raises |-> NoResponse, command |-> command, input_data |-> input_data]

BuildRaises(response) == [raises |-> response, command |-> <<>>, input_data |-> NoInput]

\* The same dispatch on the file name as it is spelled, not lower-cased.
build_encode_command_case_sensitive(text, output_path) ==
    LET executable == encoder_path.path.name
    IN  IF text = <<>>
        THEN BuildRaises(HTTPException(400, "Text to encode must not be empty."))
        ELSE IF Contains(GGWAVE_TO_FILE, executable)
        THEN Built(<<ExeArg(encoder_path.path), TextArg(text), TmpArg(output_path)>>, NoInput)
        ELSE IF Contains(GGWAVE_CLI, executable)
        THEN Built(<<ExeArg(encoder_path.path), OutputFlag, TmpArg(output_path)>>,
                   [present |-> TRUE, data |-> Utf8Encode(text)])
        ELSE BuildRaises(HTTPException(500, "Unsupported encoder binary"))

build_encode_command(text, output_path) ==
    LET executable == Lower(encoder_path.path.name)
    IN  IF text = <<>>
        THEN BuildRaises(HTTPException(400, "Text to encode must not be empty."))
        ELSE IF Contains(GGWAVE_TO_FILE, executable)
        THEN Built(<<ExeArg(encoder_path.path), TextArg(text), TmpArg(output_path)>>, NoInput)
        ELSE IF Contains(GGWAVE_CLI, executable)
        THEN Built(<<ExeArg(encoder_path.path), OutputFlag, TmpArg(output_path)>>,
                   [present |-> TRUE, data |-> Utf8Encode(text)])
        ELSE BuildRaises(HTTPException(500, "Unsupported encoder binary"))

\* The text the encoder process is given: an argument, or its standard input.
TextGiven(command, input_data) ==
    IF input_data.present THEN Utf8DecodeIgnore(input_data.data)
    ELSE IF Len(command) >= 2 /\ command[2].kind = "text" THEN command[2].text
    ELSE <<>>

\* The output file after the encoder process has run.
EncoderWrites(dir, name, ino, built, outcome) ==
    IF outcome.error = "none" /\ outcome.writes = "wav"
    THEN WriteFile(dir, name, ino, Wav(TextGiven(built.command, built.input_data)))
    ELSE dir

ProcOf(outcome) ==
    [error |-> outcome.error, returncode |-> outcome.returncode,
     stdout |-> outcome.stdout, stderr |-> outcome.stderr]

-----------------------------------------------------------------------------
(* POST /encode *)

\* Lines 162-167: validation, then the temporary output file.
EncodeBegin(r, t) ==
    /\ app = "serving"
    /\ req[r].pc = "idle"
    /\ IF stripped_text(t) = <<>>
       THEN /\ req' = [req EXCEPT ![r] =
                         [@ EXCEPT !.kind = "encode", !.text = t, !.pc = "done",
                                   !.response = HTTPException(400, "Text to encode must not be empty."),
                                   !.responses = @ + 1]]
            /\ UNCHANGED tmpfiles
       ELSE \E n \in FreshNames :
                /\ tmpfiles' = CreateFile(tmpfiles, n, r, <<>>)
                /\ req' = [req EXCEPT ![r] =
                             [@ EXCEPT !.kind = "encode", !.text = t, !.pc = "created",
                                       !.tmp_path = TmpPath(n)]]
    /\ UNCHANGED <<os_name, environ, cwd, files, path_hits, app, encoder_path,
                   decoder_path, import_error>>

\* Lines 170-171: the command is built and the encoder is run once.
EncodeRun(r, outcome) ==
    /\ req[r].kind = "encode"
    /\ req[r].pc = "created"
    /\ LET text == stripped_text(req[r].text)
           name == req[r].tmp_path.name
           built == build_encode_command(text, name)
           raised == run_cli_raises(outcome)
       IN  IF built.raises.status # 0
           THEN /\ req' = [req EXCEPT ![r] = [@ EXCEPT !.raised = built.raises, !.pc = "failing"]]
                /\ UNCHANGED tmpfiles
           ELSE /\ tmpfiles' = EncoderWrites(tmpfiles, name, r, built, outcome)
                /\ req' = [req EXCEPT ![r] =
                             [@ EXCEPT !.command = built.command,
                                       !.input_data = built.input_data,
                                       !.spawns = @ + 1,
                                       !.proc = ProcOf(outcome),
                                       !.raised = raised,
                                       !.pc = IF raised.status # 0 THEN "failing" ELSE "ran"]]
    /\ UNCHANGED <<os_name, environ, cwd, files, path_hits, app, encoder_path,
                   decoder_path, import_error>>

\* Lines 173-182: the file is opened, the response object is returned, and the
\* finally clause unlinks the file before the server reads the body.
EncodeReturn(r) ==
    /\ req[r].kind = "encode"
    /\ req[r].pc = "ran"
    /\ LET name == req[r].tmp_path.name
       IN  IF name \in DOMAIN tmpfiles
           THEN req' = [req EXCEPT ![r] =
                          [@ EXCEPT !.audio_file = [open |-> TRUE, data |-> tmpfiles[name].data],
                                    !.response = StreamingResponse,
                                    !.responses = @ + 1,
                                    !.pc = "streaming"]]
           ELSE req' = [req EXCEPT ![r] =
                          [@ EXCEPT !.response = InternalServerError,
                                    !.responses = @ + 1,
                                    !.pc = "done"]]
    /\ tmpfiles' = remove_file(tmpfiles, req[r].tmp_path.name)
    /\ UNCHANGED <<os_name, environ, cwd, files, path_hits, app, encoder_path,
                   decoder_path, import_error>>

\* The server iterates the open file and sends the body.
EncodeStream(r) ==
    /\ req[r].kind = "encode"
    /\ req[r].pc = "streaming"
    /\ req' = [req EXCEPT ![r] =
                 [@ EXCEPT !.response.body = req[r].audio_file.data, !.pc = "done"]]
    /\ UNCHANGED <<os_name, environ, cwd, files, path_hits, app, encoder_path,
                   decoder_path, import_error, tmpfiles>>

\* Lines 181-182 on an exception: the finally clause, then the error response.
EncodeFail(r) ==
    /\ req[r].kind = "encode"
    /\ req[r].pc = "failing"
    /\ tmpfiles' = remove_file(tmpfiles, req[r].tmp_path.name)
    /\ req' = [req EXCEPT ![r] =
                 [@ EXCEPT !.response = req[r].raised, !.responses = @ + 1, !.pc = "done"]]
    /\ UNCHANGED <<os_name, environ, cwd, files, path_hits, app, encoder_path,
                   decoder_path, import_error>>

-----------------------------------------------------------------------------
(* POST /decode *)

\* Lines 191-197: validation, then the upload is written to a temporary file.
DecodeBegin(r, c) ==
    /\ app = "serving"
    /\ req[r].pc = "idle"
    /\ IF c = <<>>
       THEN /\ req' = [req EXCEPT ![r] =
                         [@ EXCEPT !.kind = "decode", !.contents = c, !.pc = "done",
                                   !.response = HTTPException(400, "Uploaded WAV file was empty."),
                                   !.responses = @ + 1]]
            /\ UNCHANGED tmpfiles
       ELSE \E n \in FreshNames :
                /\ tmpfiles' = CreateFile(tmpfiles, n, r, c)
                /\ req' = [req EXCEPT ![r] =
                             [@ EXCEPT !.kind = "decode", !.contents = c, !.pc = "created",
                                       !.tmp_path = TmpPath(n)]]
    /\ UNCHANGED <<os_name, environ, cwd, files, path_hits, app, encoder_path,
                   decoder_path, import_error>>

\* Line 200: the decoder is run once on the temporary file.
DecodeRun(r, outcome) ==
    /\ req[r].kind = "decode"
    /\ req[r].pc = "created"
    /\ req' = [req EXCEPT ![r] =
                 [@ EXCEPT !.command = <<ExeArg(decoder_path.path), TmpArg(req[r].tmp_path.name)>>,
                           !.spawns = @ + 1,
                           !.proc = ProcOf(outcome),
                           !.raised = run_cli_raises(outcome),
                           !.pc = "ran"]]
    /\ UNCHANGED <<os_name, environ, cwd, files, path_hits, app, encoder_path,
                   decoder_path, import_error, tmpfiles>>

\* Lines 204-213: the decoder's output is searched for the message.
decode_response(stdout) ==
    LET decoded_output == Utf8DecodeIgnore(stdout)
        match == DECODE_PATTERN_search(decoded_output)
    IN  IF ~match.matched
        THEN HTTPException(400, "Could not decode a message from the provided audio.")
        ELSE PlainTextResponse(match.group)

\* Lines 201-213: the finally clause, then the error or the parsed message.
DecodeFinish(r) ==
    /\ req[r].kind = "decode"
    /\ req[r].pc = "ran"
    /\ tmpfiles' = remove_file(tmpfiles, req[r].tmp_path.name)
    /\ req' = [req EXCEPT ![r] =
                 [@ EXCEPT !.response = IF req[r].raised.status # 0
                                        THEN req[r].raised
                                        ELSE decode_response(req[r].proc.stdout),
                           !.responses = @ + 1,
                           !.pc = "done"]]
    /\ UNCHANGED <<os_name, environ, cwd, files, path_hits, app, encoder_path,
                   decoder_path, import_error>>

-----------------------------------------------------------------------------
(* The environments and inputs the specifications draw from. *)

OPT == <<"/", "opt">>

SRV == <<"/", "srv">>

USR_BIN == <<"/", "usr", "bin">>

UPPER_CLI == <<"G","G","W","a","v","e","-","C","L","I",".","E","X","E">>

BOTH_NAMES == <<"g","g","w","a","v","e","-","c","l","i","-","g","g","w","a","v","e","-","t","o","-","f","i","l","e">>

OTHER_NAME == <<"e","n","c","o","d","e","r">>

MISSING_NAME == <<"m","i","s","s","i","n","g">>

Environ(enc, dec) ==
    [v \in {GGWAVE_ENCODE_ENV, GGWAVE_DECODE_ENV} |-> IF v = GGWAVE_ENCODE_ENV THEN enc ELSE dec]

NoHits == [c \in {} |-> NotFound]

InitCommon ==
    /\ app = "importing"
    /\ encoder_path = NotResolved
    /\ decoder_path = NotResolved
    /\ import_error = NoError
    /\ tmpfiles = PreExisting
    /\ req = [r \in Requests |-> NewRequest]

\* A deployment: both tools built under the project root, three more
\* executables under /opt that an override may name.
ServeFiles ==
    { Join(PROJECT_ROOT \o <<"build", "bin">>, GGWAVE_TO_FILE),
      Join(PROJECT_ROOT \o <<"bin">>, GGWAVE_FROM_FILE),
      Join(OPT, UPPER_CLI), Join(OPT, BOTH_NAMES), Join(OPT, OTHER_NAME) }

ServeOverrides ==
    { Unset, EnvValue(OPT, UPPER_CLI), EnvValue(OPT, OTHER_NAME), EnvValue(OPT, MISSING_NAME) }

InitServe(overrides) ==
    /\ InitCommon
    /\ os_name = "posix"
    /\ cwd = PROJECT_ROOT
    /\ files = ServeFiles
    /\ path_hits = NoHits
    /\ environ \in {Environ(enc, Unset) : enc \in overrides}

\* Outcomes of subprocess.run.
Exit(returncode, stdout, stderr, writes) ==
    [error |-> "none", returncode |-> returncode, stdout |-> stdout, stderr |-> stderr,
     writes |-> writes]

SpawnError(e) ==
    [error |-> e, returncode |-> 0, stdout |-> <<>>, stderr |-> <<>>, writes |-> "nothing"]

LosslessEncoder == Exit(0, <<>>, <<>>, "wav")

\* The bytes the decoder process reads from the request's temporary file.
DecoderInput(r) ==
    IF req[r].tmp_path.name \in DOMAIN tmpfiles
    THEN tmpfiles[req[r].tmp_path.name].data
    ELSE <<>>

LosslessDecoder(data) ==
    Exit(0, IF IsWav(data) THEN LosslessStdout(WavMessage(data)) ELSE LOG_LINE, <<>>, "nothing")

-----------------------------------------------------------------------------
(* Spec: requests of both kinds in any interleaving. *)

ServeTexts == { <<" ">>, <<" ", "a">> }

ServeUploads == { <<>>, Wav(<<"a">>) }

ServeEncoderOutcomes ==
    { LosslessEncoder, Exit(0, <<>>, <<>>, "nothing"), SpawnError("FileNotFoundError"),
      SpawnError("PermissionError"), Exit(1, <<>>, <<"e", "\n">>, "nothing") }

ServeDecoderOutcomes(data) ==
    { LosslessDecoder(data), Exit(0, LOG_LINE, <<>>, "nothing"),
      SpawnError("FileNotFoundError"), SpawnError("PermissionError"),
      Exit(1, <<>>, <<"e", "\n">>, "nothing") }

Init == InitServe(ServeOverrides)

Next ==
    \/ Import
    \/ \E r \in Requests :
          \/ \E t \in ServeTexts : EncodeBegin(r, t)
          \/ \E o \in ServeEncoderOutcomes : EncodeRun(r, o)
          \/ EncodeReturn(r)
          \/ EncodeStream(r)
          \/ EncodeFail(r)
          \/ \E c \in ServeUploads : DecodeBegin(r, c)
          \/ \E o \in ServeDecoderOutcomes(DecoderInput(r)) : DecodeRun(r, o)
          \/ DecodeFinish(r)

Spec == Init /\ [][Next]_vars

-----------------------------------------------------------------------------
(* SpecHandlers: one request at a time, over every outcome of the tools. *)

HandlerConfigs ==
    { [override |-> o, files |-> ServeFiles, hits |-> NoHits] :
        o \in ServeOverrides \cup {EnvValue(OPT, BOTH_NAMES)} }
    \cup
    { [override |-> Unset,
       files |-> {Join(PROJECT_ROOT \o <<"bin">>, GGWAVE_FROM_FILE)},
       hits |-> [c \in {GGWAVE_CLI} |-> Found(Join(USR_BIN, GGWAVE_CLI))]] }

InitHandlers ==
    /\ InitCommon
    /\ os_name = "posix"
    /\ cwd = PROJECT_ROOT
    /\ \E cfg \in HandlerConfigs :
          /\ files = cfg.files
          /\ path_hits = cfg.hits
          /\ environ = Environ(cfg.override, Unset)

HandlerTexts == SeqsUpTo({"a", " ", "'"}, MaxTextLen)

HandlerUploads == { <<>>, Wav(<<"a">>), <<"x">> }

SpawnErrors == { SpawnError("FileNotFoundError"), SpawnError("PermissionError") }

Stderrs == { <<>>, <<" ", "\n">>, <<" ", "e", "\n">>, <<INVALID_BYTE>> }

HandlerEncoderOutcomes ==
    SpawnErrors \cup
    { Exit(rc, <<>>, e, w) : rc \in {0, 1, 2}, e \in Stderrs, w \in {"nothing", "wav"} }

HandlerDecoderOutcomes(data) ==
    SpawnErrors \cup
    { Exit(rc, out, e, "nothing") :
        rc \in {0, 1, 2}, e \in Stderrs,
        out \in {LosslessDecoder(data).stdout, LOG_LINE, <<>>} }

NextHandlers ==
    \/ Import
    \/ \E t \in HandlerTexts : EncodeBegin(1, t)
    \/ \E o \in HandlerEncoderOutcomes : EncodeRun(1, o)
    \/ EncodeReturn(1)
    \/ EncodeStream(1)
    \/ EncodeFail(1)
    \/ \E c \in HandlerUploads : DecodeBegin(1, c)
    \/ \E o \in HandlerDecoderOutcomes(DecoderInput(1)) : DecodeRun(1, o)
    \/ DecodeFinish(1)

SpecHandlers == InitHandlers /\ [][NextHandlers]_vars

-----------------------------------------------------------------------------
(* SpecResolve: the import over many file systems and environments. *)

ResolveOverrides ==
    { Unset, EmptyValue, EnvValue(OPT, OTHER_NAME), EnvValue(OPT, MISSING_NAME),
      EnvValue(<<"bin">>, GGWAVE_CLI) }

ResolveFiles ==
    { Join(OPT, OTHER_NAME),
      Join(PROJECT_ROOT \o <<"bin">>, GGWAVE_CLI),
      Join(PROJECT_ROOT \o <<"bin">>, GGWAVE_CLI \o DOT_EXE),
      Join(PROJECT_ROOT \o <<"build">>, GGWAVE_TO_FILE),
      Join(SRV \o <<"bin">>, GGWAVE_CLI),
      Join(PROJECT_ROOT \o <<"build", "bin">>, GGWAVE_FROM_FILE) }

ResolveHits ==
    { [c \in S |-> Found(Join(USR_BIN, c))] :
        S \in SUBSET {GGWAVE_TO_FILE, GGWAVE_CLI, GGWAVE_FROM_FILE} }

InitResolve ==
    /\ InitCommon
    /\ os_name \in {"posix", "nt"}
    /\ cwd \in {PROJECT_ROOT, SRV}
    /\ files \in SUBSET ResolveFiles
    /\ path_hits \in ResolveHits
    /\ environ \in {Environ(enc, dec) :
                      enc \in ResolveOverrides, dec \in {Unset, EnvValue(OPT, MISSING_NAME)}}

NextResolve == Import

SpecResolve == InitResolve /\ [][NextResolve]_vars

-----------------------------------------------------------------------------
(* SpecRoundTrip: request 1 encodes a text, request 2 decodes the audio    *)
(* request 1 answered with, and both tools are lossless.                   *)

RoundTripTexts == SeqsUpTo({"a", " ", "'", "\n"}, MaxTextLen)

InitRoundTrip == InitServe({Unset, EnvValue(OPT, UPPER_CLI)})

NextRoundTrip ==
    \/ Import
    \/ \E t \in RoundTripTexts : EncodeBegin(1, t)
    \/ EncodeRun(1, LosslessEncoder)
    \/ EncodeReturn(1)
    \/ EncodeStream(1)
    \/ /\ req[1].pc = "done"
       /\ req[1].response.status = 200
       /\ DecodeBegin(2, req[1].response.body)
    \/ DecodeRun(2, LosslessDecoder(DecoderInput(2)))
    \/ DecodeFinish(2)

SpecRoundTrip == InitRoundTrip /\ [][NextRoundTrip]_vars

-----------------------------------------------------------------------------
(* SpecParse: /decode over the outputs a decoder may print.                *)

ParseMessages == SeqsUpTo({"a", " ", "'"}, MaxTextLen)

\* The same line without the "[+] " marker.
BareLine(message) ==
    SubSeq(DecodedLine(message), 5, Len(DecodedLine(message)))

\* A line of output: a log line, or a decoded-message line with or without
\* its marker.
ParseLines ==
    { [log |-> TRUE, marker |-> FALSE, message |-> <<>>] } \cup
    { [log |-> FALSE, marker |-> mk, message |-> m] : mk \in BOOLEAN, m \in ParseMessages }

RenderLine(line) ==
    IF line.log THEN LOG_LINE
    ELSE IF line.marker THEN DecodedLine(line.message)
    ELSE BareLine(line.message)

RECURSIVE Render(_)
Render(lines) == IF lines = <<>> THEN <<>> ELSE RenderLine(Head(lines)) \o Render(Tail(lines))

\* The outputs of at most n lines, as lines and as bytes.
ParseLineSeqs(n) == SeqsUpTo(ParseLines, n)

ParseStdouts(n) == { Render(ls) : ls \in ParseLineSeqs(n) }

InitParse == InitServe({Unset})

NextParse ==
    \/ Import
    \/ DecodeBegin(1, Wav(<<"a">>))
    \/ \E out \in ParseStdouts(MaxLines) : DecodeRun(1, Exit(0, out, <<>>, "nothing"))
    \/ DecodeFinish(1)

SpecParse == InitParse /\ [][NextParse]_vars

-----------------------------------------------------------------------------
(* Properties. *)

InFlight == {"created", "ran", "failing"}

Unlinked(r) == \A n \in DOMAIN tmpfiles : tmpfiles[n].ino # r

\* C1: for every non-empty text, /encode of the text followed by /decode of
\* the audio it answered with returns the text, the codec being lossless.
C1_RoundTrip ==
    (/\ req[1].kind = "encode" /\ req[1].pc = "done" /\ req[1].response.status = 200
     /\ req[2].kind = "decode" /\ req[2].pc = "done"
     /\ req[2].contents = req[1].response.body)
    => /\ req[2].response.status = 200
       /\ req[2].response.body = req[1].text

\* C2: a completed request has left no temporary file of its own behind, a
\* request in flight still has its file (no other request's cleanup removed
\* it), and when every request has completed the temp directory lists what
\* it listed before.
C2_TempFilesRemoved ==
    /\ \A r \in Requests : req[r].pc = "done" => Unlinked(r)
    /\ \A r \in Requests :
          req[r].pc \in InFlight =>
             /\ req[r].tmp_path.name \in DOMAIN tmpfiles
             /\ tmpfiles[req[r].tmp_path.name].ino = r
    /\ (\A r \in Requests : req[r].pc \in {"idle", "done"}) => tmpfiles = PreExisting

\* A request has completed after creating a file, and another request in
\* flight holds a file of the very same name.
C2_Witness ==
    \E r1 \in Requests, r2 \in Requests :
        /\ r1 # r2
        /\ req[r1].pc = "done"
        /\ req[r1].tmp_path.created
        /\ req[r2].pc \in InFlight
        /\ req[r2].tmp_path.name = req[r1].tmp_path.name

\* C3: in a successful /encode the temporary file is unlinked only after the
\* response body has been read from it.
C3_UnlinkAfterBodyRead ==
    \A r \in Requests :
        (/\ req[r].kind = "encode"
         /\ req[r].response.status = 200
         /\ Unlinked(r))
        => req[r].pc = "done"

InvalidEncoderOverride ==
    /\ Truthy(environ[GGWAVE_ENCODE_ENV])
    /\ ~is_file(PathOf(environ[GGWAVE_ENCODE_ENV]))

\* C4 as amended: with the encoder override naming a path that does not
\* exist, the import itself fails with the 500 error naming the variable and
\* the path; the application is never created and no request is taken.
C4_InvalidOverrideFailsImport ==
    (app # "importing" /\ InvalidEncoderOverride)
    => /\ app = "failed"
       /\ import_error.kind = "override"
       /\ import_error.status_code = 500
       /\ import_error.env_var = GGWAVE_ENCODE_ENV
       /\ import_error.override = PathOf(environ[GGWAVE_ENCODE_ENV])
       /\ \A r \in Requests : req[r] = NewRequest

\* The import has failed on GGWAVE_ENCODE=/opt/missing.
C4_Witness ==
    /\ app = "failed"
    /\ environ[GGWAVE_ENCODE_ENV] = EnvValue(OPT, MISSING_NAME)
    /\ import_error.override = Join(OPT, MISSING_NAME)

\* C4 as claimed: with the encoder override naming a path that does not
\* exist, the service is up and every /encode it has answered got a 500.
C4_InvalidOverrideAnswered ==
    (app # "importing" /\ InvalidEncoderOverride)
    => /\ app = "serving"
       /\ \A r \in Requests :
             (req[r].kind = "encode" /\ req[r].pc = "done") => req[r].response.status = 500

-----------------------------------------------------------------------------

\* What the import made of one tool: the path, or the exception raised.
EncoderOutcome ==
    IF encoder_path.ok THEN encoder_path
    ELSE [ok |-> FALSE, path |-> NoPath, detail |-> import_error]

DecoderOutcome ==
    IF decoder_path.ok THEN decoder_path
    ELSE [ok |-> FALSE, path |-> NoPath, detail |-> import_error]

LexLeast(H) == CHOOSE h \in H : \A g \in H : h[1] < g[1] \/ (h[1] = g[1] /\ h[2] <= g[2])

\* The resolution order for one tool, `overridden` saying when step 1 applies.
ResolutionOrder(env_var, names, out, overridden) ==
    LET override == PathOf(environ[env_var])
        cn == CandidateNames(names)
        dirs == iter_default_cli_dirs
        DirHits == {h \in (1..Len(dirs)) \X (1..Len(cn)) : is_file(Join(dirs[h[1]], cn[h[2]]))}
        PathHits == {j \in 1..Len(cn) : which(cn[j]).found}
    IN  IF overridden
        THEN IF is_file(override)
             THEN out.ok /\ out.path = override
             ELSE /\ ~out.ok
                  /\ out.detail.kind = "override"
                  /\ out.detail.status_code = 500
                  /\ out.detail.env_var = env_var
                  /\ out.detail.override = override
        ELSE IF DirHits # {}
        THEN /\ out.ok
             /\ out.path = Join(dirs[LexLeast(DirHits)[1]], cn[LexLeast(DirHits)[2]])
        ELSE IF PathHits # {}
        THEN out.ok /\ out.path = which(cn[Min(PathHits)]).path
        ELSE /\ ~out.ok
             /\ out.detail.kind = "not_located"
             /\ out.detail.status_code = 500
             /\ out.detail.names = cn
             /\ out.detail.env_var = env_var

\* C5 as amended: step 1 applies when the override variable holds a
\* non-empty value; then the path it names is returned if it is a regular
\* file and resolution fails otherwise, with no search.  With the variable
\* unset or empty: the first regular file in directory order, then name
\* order; else the first name found on PATH; else an error listing every
\* candidate name and naming the variable.
C5_ResolutionOrder ==
    app # "importing" =>
       /\ ResolutionOrder(GGWAVE_ENCODE_ENV, ENCODER_NAMES, EncoderOutcome,
                          Truthy(environ[GGWAVE_ENCODE_ENV]))
       /\ encoder_path.ok =>
             ResolutionOrder(GGWAVE_DECODE_ENV, DECODER_NAMES, DecoderOutcome,
                             Truthy(environ[GGWAVE_DECODE_ENV]))

\* C5 as claimed: step 1 applies whenever the override variable is set.
C5_ResolutionOrderWheneverSet ==
    app # "importing" =>
       /\ ResolutionOrder(GGWAVE_ENCODE_ENV, ENCODER_NAMES, EncoderOutcome,
                          environ[GGWAVE_ENCODE_ENV].set)
       /\ encoder_path.ok =>
             ResolutionOrder(GGWAVE_DECODE_ENV, DECODER_NAMES, DecoderOutcome,
                             environ[GGWAVE_DECODE_ENV].set)

\* No override; a later directory holds the first candidate name, an earlier
\* one the second, and PATH has a hit too: the earlier directory's file won.
C5_Witness ==
    /\ app = "serving"
    /\ ~environ[GGWAVE_ENCODE_ENV].set
    /\ Join(PROJECT_ROOT \o <<"build">>, GGWAVE_TO_FILE) \in files
    /\ which(GGWAVE_TO_FILE).found
    /\ encoder_path.path = Join(PROJECT_ROOT \o <<"bin">>, GGWAVE_CLI)

\* C6: a relative override that exists under the project root resolves to
\* that file, whatever the working directory.
C6_OverrideUnderProjectRoot ==
    LET override == PathOf(environ[GGWAVE_ENCODE_ENV])
        under_root == [dir |-> PROJECT_ROOT \o override.dir, name |-> override.name]
    IN  (/\ app # "importing"
         /\ Truthy(environ[GGWAVE_ENCODE_ENV])
         /\ ~IsAbsolute(override)
         /\ under_root \in files)
        => /\ encoder_path.ok
           /\ Resolve(encoder_path.path) = under_root

-----------------------------------------------------------------------------

Supported(name) ==
    Contains(GGWAVE_TO_FILE, Lower(name)) \/ Contains(GGWAVE_CLI, Lower(name))

\* The status and detail a subprocess outcome maps to; `success` is what is
\* required of the response when the process exits with code zero.
ProcessMapping(q, success) ==
    IF q.proc.error # "none"
    THEN q.response.status = 500
    ELSE IF q.proc.returncode # 0
    THEN /\ q.response.status = 500
         /\ LET trimmed == Strip(Utf8DecodeIgnore(q.proc.stderr))
            IN  IF trimmed # <<>>
                THEN q.response.detail.msg = "stderr" /\ q.response.detail.stderr = trimmed
                ELSE /\ q.response.detail.msg = "Command failed with exit code"
                     /\ q.response.detail.returncode = q.proc.returncode
    ELSE success

ErrorMapping(q, unsupported_fails) ==
    IF q.kind = "encode"
    THEN IF Strip(q.text) = <<>>
         THEN q.response.status = 400 /\ q.spawns = 0
         ELSE IF unsupported_fails /\ ~Supported(encoder_path.path.name)
         THEN /\ q.response.status = 500
              /\ q.response.detail.msg = "Unsupported encoder binary"
              /\ q.spawns = 0
         ELSE ProcessMapping(q, q.response.status = 200)
    ELSE IF q.contents = <<>>
         THEN q.response.status = 400 /\ q.spawns = 0
         ELSE ProcessMapping(q,
                 IF DECODE_PATTERN_search(Utf8DecodeIgnore(q.proc.stdout)).matched
                 THEN q.response.status = 200
                 ELSE /\ q.response.status = 400
                      /\ q.response.detail.msg =
                            "Could not decode a message from the provided audio.")

OneResponseOneSpawn ==
    \A r \in Requests :
        /\ req[r].spawns <= 1
        /\ req[r].responses = IF req[r].pc \in {"streaming", "done"} THEN 1 ELSE 0

\* C7 as amended: every request ends with exactly one response and spawns at
\* most one subprocess; the status is that of the first failure met, where an
\* encoder whose file name matches neither supported variant is one more
\* failure (500 'Unsupported encoder binary', nothing spawned), met after the
\* empty-text check and before the subprocess.
C7_ErrorMapping ==
    /\ OneResponseOneSpawn
    /\ \A r \in Requests : req[r].pc = "done" => ErrorMapping(req[r], TRUE)

\* C7 as claimed: the failures are the empty input, the spawn failure, the
\* non-zero exit code and the missing match; otherwise 200.
C7_ErrorMappingOtherwise200 ==
    /\ OneResponseOneSpawn
    /\ \A r \in Requests : req[r].pc = "done" => ErrorMapping(req[r], FALSE)

\* A decoder that exited with code 2 and only white space on stderr: the
\* request got the synthesized message, after one spawn.
C7_Witness ==
    \E r \in Requests :
        /\ req[r].kind = "decode"
        /\ req[r].pc = "done"
        /\ req[r].proc.returncode = 2
        /\ req[r].proc.stderr = <<" ", "\n">>
        /\ req[r].response.detail.returncode = 2
        /\ req[r].spawns = 1

\* C8: an encoder that exits with code zero and leaves an empty output file
\* never yields a 200 response with an empty body.
C8_EmptyOutputFails ==
    \A r \in Requests :
        (/\ req[r].kind = "encode"
         /\ req[r].pc = "done"
         /\ req[r].audio_file.open
         /\ req[r].audio_file.data = <<>>)
        => req[r].response.status # 200

\* C9: when the decoder's output holds lines "[+] Decoded message with
\* length N: '<m>'" among other lines, /decode answers 200 with the m of the
\* first such line, the whole text between the wrapping quotes; when it
\* holds none, /decode answers 400.
C9_FirstMessageReturned ==
    (req[1].kind = "decode" /\ req[1].pc = "done") =>
    \A ls \in ParseLineSeqs(MaxLines) :
        req[1].proc.stdout = Render(ls)
        => LET hits == {i \in 1..Len(ls) :
                          ~ls[i].log /\ ls[i].marker /\ ls[i].message # <<>>}
           IN  IF hits = {}
               THEN req[1].response.status = 400
               ELSE /\ req[1].response.status = 200
                    /\ req[1].response.body = ls[Min(hits)].message

\* C10: once the command of an /encode with valid text has been built, its
\* shape follows the lower-cased file name of the encoder: [encoder, text,
\* output path] and no stdin for 'ggwave-to-file'; else [encoder,
\* '--output', output path] and the text on stdin for 'ggwave-cli'; else
\* (an override only) nothing is spawned and the request ends with 500
\* 'Unsupported encoder binary' and its temporary file deleted.
C10_InvocationShape ==
    \A r \in Requests :
        (/\ req[r].kind = "encode"
         /\ req[r].pc \in {"ran", "failing", "streaming", "done"}
         /\ Strip(req[r].text) # <<>>)
        => LET q == req[r]
               name == Lower(encoder_path.path.name)
               exe == ExeArg(encoder_path.path)
               out == TmpArg(q.tmp_path.name)
           IN  IF Contains(GGWAVE_TO_FILE, name)
               THEN /\ q.command = <<exe, TextArg(Strip(q.text)), out>>
                    /\ ~q.input_data.present
               ELSE IF Contains(GGWAVE_CLI, name)
               THEN /\ q.command = <<exe, OutputFlag, out>>
                    /\ q.input_data = [present |-> TRUE, data |-> Strip(q.text)]
               ELSE /\ Truthy(environ[GGWAVE_ENCODE_ENV])
                    /\ q.spawns = 0
                    /\ q.pc \in {"failing", "done"}
                    /\ q.pc = "done" =>
                          /\ q.response.status = 500
                          /\ q.response.detail.msg = "Unsupported encoder binary"
                          /\ Unlinked(r)

\* An encoder named GGWave-CLI.EXE was given the trimmed text on stdin, and
\* the request has been answered.
C10_Witness ==
    \E r \in Requests :
        /\ req[r].kind = "encode"
        /\ req[r].pc = "done"
        /\ encoder_path.path.name = UPPER_CLI
        /\ req[r].text = <<" ", "a">>
        /\ req[r].input_data = [present |-> TRUE, data |-> <<"a">>]
        /\ req[r].command[2] = OutputFlag

=============================================================================
